---- MODULE Spec2Model ----
(***************************************************************************)
(* A model of the sentence-classification pipeline of NLPlab_main:         *)
(*   - dataloading.py : SentenceDataset (tokenize, encode, pad/truncate),  *)
(*   - main.py        : dataset selection, model/optimizer set-up and the  *)
(*                      epoch loop,                                        *)
(*   - attention.py   : the forward passes of the attention classifiers.   *)
(* Three specifications share the module: SpecData, SpecMain, SpecForward. *)
(***************************************************************************)
EXTENDS Integers, Sequences, FiniteSets, TLC

VARIABLES
    \* ---- dataloading.py: a SentenceDataset under construction and in use
    X,              \* constructor argument: list of raw sentences
    y,              \* constructor argument: list of encoded labels
    word2idx,       \* self.word2idx
    data,           \* self.data: list of token lists
    labels,         \* self.labels
    dpc,            \* position: "new", "debug", "ready", "raised", "off"
    i,              \* loop variable of the "first 5 examples" loop
    passed,         \* indices handed to __getitem__ by the constructor
    ret,            \* value returned by the last __getitem__ call
    last,           \* the last __getitem__ call: its index and its caller
    returned,       \* per index, the set of triples __getitem__ has returned
    \* ---- main.py: the script
    datasets,       \* the list the loop of line 48 iterates over
    di,             \* position of DATASET in that list (1-based)
    mpc,            \* position of the script
    error,          \* the exception that ended the script, if any
    embeddings,     \* the matrix returned by load_word_vectors
    emb_loads,      \* number of load_word_vectors calls
    model,          \* the model: its class and the state of each parameter
    optimizer,      \* the parameters handed to Adam
    epoch,          \* loop variable of line 109
    train_loss,     \* result of the last eval_dataset(train_loader, ...)
    test_loss,      \* result of the last eval_dataset(test_loader, ...)
    train_losses,   \* list of line 106
    test_losses,    \* list of line 107
    phases,         \* the calls made so far in the current epoch, in order
    loaded,         \* positions whose raw data has been loaded
    built,          \* positions for which a model has been built
    trained,        \* positions for which a training step has run
    \* ---- attention.py: one forward call of a classifier
    fclass,         \* the class of the model
    n_head,         \* self.n_head
    n_layer,        \* number of Blocks in self.blocks
    output_size,    \* self.output_size
    fpc,            \* position in forward
    layer,          \* Blocks of self.blocks already run
    tape,           \* the tensors computed so far: operation and operands
    xid             \* the tensor the local `x` names (0: the argument)

dataVars == <<X, y, word2idx, data, labels, dpc, i, passed, ret, last, returned>>

mainVars == <<datasets, di, mpc, error, embeddings, emb_loads, model, optimizer, epoch,
              train_loss, test_loss, train_losses, test_losses, phases,
              loaded, built, trained>>

fwdVars == <<fclass, n_head, n_layer, output_size, fpc, layer, tape, xid>>

vars == <<dataVars, mainVars, fwdVars>>

(***************************************************************************)
(* Bounds of the model and constants of the program.                       *)
(***************************************************************************)
MaxChars == 3       \* raw sentences of up to MaxChars characters, exhaustively
MaxWords == 9       \* space-joined sentences of up to MaxWords one-letter words
MaxData == 6        \* datasets of up to MaxData sentences over DataPool
NumClasses == 2     \* encoded labels are 0 .. NumClasses-1

MAX_LEN == 8
DebugCount == 5
pad_idx == 0
None == -1          \* Python's None, as returned by dict.get on a missing key

Min(a, b) == IF a < b THEN a ELSE b
Range(f) == {f[k] : k \in DOMAIN f}

(***************************************************************************)
(* Raw text.  A sentence is a sequence of one-character strings.           *)
(***************************************************************************)
Chars == {"a", "B", " "}
Words == {"a", "B"}

IsSpace(c) == c = " "

\* str.lower() on one character
UpperToLower == ("B" :> "b") @@ ("T" :> "t")
LowerChar(c) == IF c \in DOMAIN UpperToLower THEN UpperToLower[c] ELSE c

\* str.lower()
Lower(s) == [k \in 1..Len(s) |-> LowerChar(s[k])]

\* str.split() with no argument: the maximal runs of non-whitespace characters
RECURSIVE SplitFrom(_, _, _, _)
SplitFrom(s, k, cur, acc) ==
    IF k > Len(s)
    THEN IF cur = "" THEN acc ELSE Append(acc, cur)
    ELSE IF IsSpace(s[k])
         THEN SplitFrom(s, k + 1, "", IF cur = "" THEN acc ELSE Append(acc, cur))
         ELSE SplitFrom(s, k + 1, cur \o s[k], acc)

Split(s) == SplitFrom(s, 1, "", <<>>)

\* sentence.lower().split()
Tokenize(s) == Split(Lower(s))

\* " ".join(ws) for one-character words
RECURSIVE Join(_)
Join(ws) ==
    IF Len(ws) = 0 THEN <<>>
    ELSE IF Len(ws) = 1 THEN <<ws[1]>>
    ELSE <<ws[1], " ">> \o Join(Tail(ws))

ShortSentences == UNION {[1..n -> Chars] : n \in 0..MaxChars}
LongSentences == {Join(ws) : ws \in UNION {[1..n -> Words] : n \in 0..MaxWords}}
RawSentences == ShortSentences \cup LongSentences

\* fixed sentences: the docstring's example, a blank line, a short sentence
\* with irregular spacing and one of MAX_LEN + 1 words
Example == <<"T", "h", "i", "s", " ", "i", "s", " ", "r", "e", "a", "l", "l", "y", " ",
             "s", "i", "m", "p", "l", "e">>
Blank == <<" ">>
SentenceA == <<"a", " ", "B", "a", " ", " ", "b">>
SentenceB == Join([k \in 1..(MAX_LEN + 1) |-> IF k % 2 = 1 THEN "B" ELSE "a"])
DataPool == {SentenceA, SentenceB}

\* datasets of every size up to MaxData, and datasets of DebugCount sentences
\* whose last sentence ranges over RawSentences
SmallDatasets == UNION {[1..n -> DataPool] : n \in 0..MaxData}
RichDatasets ==
    {<<Example, SentenceB, Blank, SentenceA>> \o <<s>> : s \in RawSentences}
Datasets == SmallDatasets \cup RichDatasets

LabelLists(n) == {[k \in 1..n |-> (k + c) % NumClasses] : c \in 0..(NumClasses - 1)}

\* word2idx as load_word_vectors() builds it: index 0 is kept for padding,
\* every word has a positive index and "<unk>" is always a key
Vocabs ==
    { ("this" :> 5) @@ ("is" :> 9) @@ ("really" :> 41) @@ ("simple" :> 12) @@
      ("a" :> 1) @@ ("b" :> 2) @@ ("ba" :> 3) @@ ("<unk>" :> 4),
      ("a" :> 3) @@ ("<unk>" :> 1) }

(***************************************************************************)
(* SentenceDataset.__getitem__                                             *)
(***************************************************************************)
\* dict.get(key, default)
Get(d, key, default) == IF key \in DOMAIN d THEN d[key] ELSE default

\* unk_idx = self.word2idx.get("<unk>")
UnkIdxWrongKey(w2i) == Get(w2i, "<UNK>", None)
unk_idx(w2i) == Get(w2i, "<unk>", None)

\* indexed = [self.word2idx.get(word, unk_idx) for word in tokens]
Indexed(tokens, w2i) == [k \in 1..Len(tokens) |-> Get(w2i, tokens[k], unk_idx(w2i))]

\* length = min(len(indexed), self.MAX_LEN)
LengthOfPadded(indexed) == MAX_LEN
Length(indexed) == Min(Len(indexed), MAX_LEN)

\* truncate or pad to MAX_LEN
PadOnly(indexed) ==
    IF Len(indexed) < MAX_LEN
    THEN indexed \o [k \in 1..(MAX_LEN - Len(indexed)) |-> pad_idx]
    ELSE indexed
PadOrKeepLast(indexed) ==
    IF Len(indexed) < MAX_LEN
    THEN indexed \o [k \in 1..(MAX_LEN - Len(indexed)) |-> pad_idx]
    ELSE SubSeq(indexed, Len(indexed) - MAX_LEN + 1, Len(indexed))
PadOrTruncate(indexed) ==
    IF Len(indexed) < MAX_LEN
    THEN indexed \o [k \in 1..(MAX_LEN - Len(indexed)) |-> pad_idx]
    ELSE SubSeq(indexed, 1, MAX_LEN)

\* does self.data[index] exist (index >= 0 here)
InRange(index, d) == index >= 0 /\ index < Len(d)

\* the returned triple (example, label, length); index is 0-based
GetItemResult(index, d, l, w2i) ==
    [example |-> PadOrTruncate(Indexed(d[index + 1], w2i)),
     label   |-> l[index + 1],
     length  |-> Length(Indexed(d[index + 1], w2i))]

\* what self.data[index] holds after the call: `indexed` is a new list, the
\* in-place `+=` extends that list and the stored token list is not assigned
StoredTokensPadded(tokens) ==
    IF Len(tokens) < MAX_LEN
    THEN tokens \o [k \in 1..(MAX_LEN - Len(tokens)) |-> "0"]
    ELSE tokens
StoredTokensAfter(tokens) == tokens

NoRet == [example |-> <<>>, label |-> None, length |-> None]
NoCall == [index |-> None, by |-> "none"]

CallGetItem(index, caller) ==
    /\ ret' = GetItemResult(index, data, labels, word2idx)
    /\ last' = [index |-> index, by |-> caller]
    /\ returned' = [returned EXCEPT ![index] = @ \cup {GetItemResult(index, data, labels, word2idx)}]
    /\ data' = [data EXCEPT ![index + 1] = StoredTokensAfter(@)]

(***************************************************************************)
(* The parts of the state a specification does not use stay idle           *)
(***************************************************************************)
NoModel == [class |-> "none", weights |-> <<>>]
NoLoss == [split |-> "none", epoch |-> 0]

\* no forward call is running
FwdIdle ==
    /\ fclass = "none"
    /\ n_head = 0
    /\ n_layer = 0
    /\ output_size = 0
    /\ fpc = "off"
    /\ layer = 0
    /\ tape = <<>>
    /\ xid = 0

\* the script is not running
MainIdle ==
    /\ datasets = <<>>
    /\ di = 0
    /\ mpc = "off"
    /\ error = "none"
    /\ embeddings = "unloaded"
    /\ emb_loads = 0
    /\ model = NoModel
    /\ optimizer = {}
    /\ epoch = 0
    /\ train_loss = NoLoss
    /\ test_loss = NoLoss
    /\ train_losses = <<>>
    /\ test_losses = <<>>
    /\ phases = <<>>
    /\ loaded = {}
    /\ built = {}
    /\ trained = {}

(***************************************************************************)
(* SentenceDataset.__init__ and its callers                                *)
(***************************************************************************)
InitData ==
    /\ X \in Datasets
    /\ y \in LabelLists(Len(X))
    /\ word2idx \in Vocabs
    /\ data = <<>>
    /\ labels = <<>>
    /\ dpc = "new"
    /\ i = 0
    /\ passed = {}
    /\ ret = NoRet
    /\ last = NoCall
    /\ returned = [k \in 0..(Len(X) - 1) |-> {}]
    /\ MainIdle
    /\ FwdIdle

\* lines 37-47: store the arguments, tokenize every sentence
InitTokenize ==
    /\ dpc = "new"
    /\ labels' = y
    /\ data' = [k \in 1..Len(X) |-> Tokenize(X[k])]
    /\ dpc' = "debug"
    /\ i' = 0
    /\ UNCHANGED <<X, y, word2idx, passed, ret, last, returned, mainVars, fwdVars>>

\* lines 50-53, one iteration whose self.__getitem__(i) returns
InitDebugItem ==
    /\ dpc = "debug"
    /\ i < DebugCount
    /\ InRange(i, data)
    /\ passed' = passed \cup {i}
    /\ CallGetItem(i, "init")
    /\ i' = i + 1
    /\ UNCHANGED <<X, y, word2idx, labels, dpc, mainVars, fwdVars>>

\* lines 50-51 and 94: self.data[i] raises IndexError, which leaves __init__
InitDebugRaise ==
    /\ dpc = "debug"
    /\ i < DebugCount
    /\ ~InRange(i, data)
    /\ passed' = passed \cup {i}
    /\ dpc' = "raised"
    /\ UNCHANGED <<X, y, word2idx, data, labels, i, ret, last, returned, mainVars, fwdVars>>

\* the loop of line 50 is exhausted and __init__ returns
InitReturn ==
    /\ dpc = "debug"
    /\ i = DebugCount
    /\ dpc' = "ready"
    /\ UNCHANGED <<X, y, word2idx, data, labels, i, passed, ret, last, returned, mainVars, fwdVars>>

\* __getitem__ called by a DataLoader with an index of its sampler
GetItem ==
    /\ dpc = "ready"
    /\ \E index \in 0..(Len(data) - 1) :
        CallGetItem(index, "loader")
    /\ UNCHANGED <<X, y, word2idx, labels, dpc, i, passed, mainVars, fwdVars>>

\* __len__
DatasetLen == Len(data)

NextData == InitTokenize \/ InitDebugItem \/ InitDebugRaise \/ InitReturn \/ GetItem

SpecData == InitData /\ [][NextData]_vars

(***************************************************************************)
(* Properties of SentenceDataset                                           *)
(***************************************************************************)
\* the indices __getitem__ has returned for
Called == {index \in DOMAIN returned : returned[index] # {}}

\* the tokens of sentence `index` (0-based), from the raw text
TokensOf(index) == Tokenize(X[index + 1])

InVocab(tokens) == \A k \in 1..Len(tokens) : tokens[k] \in DOMAIN word2idx

\* C1: every token-id sequence returned by __getitem__ has length exactly
\* MAX_LEN, whatever the token count of the sentence
C1_FixedLength ==
    last.by # "none" => Len(ret.example) = MAX_LEN

\* one dataset in which sentences of 0, of fewer than MAX_LEN, of exactly
\* MAX_LEN and of more than MAX_LEN tokens have all been returned
C1_Witness ==
    /\ dpc = "ready"
    /\ \E index \in Called : Len(TokensOf(index)) = 0
    /\ \E index \in Called : Len(TokensOf(index)) \in 1..(MAX_LEN - 1)
    /\ \E index \in Called : Len(TokensOf(index)) = MAX_LEN
    /\ \E index \in Called : Len(TokensOf(index)) > MAX_LEN

\* C2: for a sentence whose tokens are all in the vocabulary, position k of
\* the returned sequence holds the index of the k-th token for k up to
\* min(n, MAX_LEN) and the pad index 0 beyond the n-th token; the docstring's
\* example encodes to [5,9,41,12,0,0,0,0]
C2_EncodesInOrder ==
    last.by # "none" =>
        LET toks == TokensOf(last.index) IN
        /\ InVocab(toks) =>
              /\ Len(ret.example) = MAX_LEN
              /\ \A k \in 1..MAX_LEN :
                    ret.example[k] = IF k <= Len(toks) THEN word2idx[toks[k]] ELSE 0
        /\ (X[last.index + 1] = Example /\ Get(word2idx, "this", None) = 5) =>
              ret.example = <<5, 9, 41, 12, 0, 0, 0, 0>>

\* the example has been encoded, and so has an all-in-vocabulary sentence of
\* more than MAX_LEN tokens that are not all the same
C2_Witness ==
    /\ dpc = "ready"
    /\ \E index \in Called :
          X[index + 1] = Example /\ Get(word2idx, "this", None) = 5
    /\ LET toks == TokensOf(last.index) IN
          /\ InVocab(toks)
          /\ Len(toks) > MAX_LEN
          /\ toks[1] # toks[MAX_LEN]
          /\ toks[MAX_LEN + 1] # toks[MAX_LEN]

C4_UnknownTokens ==
    last.by # "none" =>
        LET toks == TokensOf(last.index) IN
        /\ \A k \in 1..Min(Len(toks), MAX_LEN) :
              ret.example[k] = IF toks[k] \in DOMAIN word2idx
                               THEN word2idx[toks[k]]
                               ELSE word2idx["<unk>"]
        /\ \A k \in 1..Len(ret.example) :
              ret.example[k] # None /\ ret.example[k] \in Range(word2idx) \cup {pad_idx}

\* the sentence returned last holds both a token out of the vocabulary and
\* one in it
C4_Witness ==
    /\ last.by # "none"
    /\ LET toks == TokensOf(last.index) IN
          /\ \E k \in 1..Min(Len(toks), MAX_LEN) :
                toks[k] \notin DOMAIN word2idx /\ ret.example[k] = word2idx["<unk>"]
          /\ \E k \in 1..Min(Len(toks), MAX_LEN) :
                toks[k] \in DOMAIN word2idx /\ ret.example[k] # word2idx["<unk>"]

\* a __getitem__ call leaves the stored token lists, the labels and the
\* vocabulary as they were
C5_GetItemKeepsState ==
    [][(last' # last \/ ret' # ret \/ returned' # returned) /\ dpc # "new" =>
          data' = data /\ labels' = labels /\ word2idx' = word2idx]_vars

\* all the calls made with one index have returned the same triple
C5_SameIndexSameTriple ==
    \A index \in Called : Cardinality(returned[index]) = 1

\* C5: __getitem__ is pure and stateless: any sequence of calls leaves the
\* stored token lists, the labels and the vocabulary unchanged, and every call
\* with one index returns the same (sequence, label, length) triple
C5_Pure == C5_GetItemKeepsState /\ []C5_SameIndexSameTriple

\* a DataLoader call has repeated an index the constructor had used, on a
\* sentence shorter than MAX_LEN
C5_Witness ==
    /\ last.by = "loader"
    /\ last.index \in passed
    /\ Len(data[last.index + 1]) \in 1..(MAX_LEN - 1)
    /\ returned[last.index] = {ret}

\* C10 as stated: construction never raises, every index the constructor
\* passes to __getitem__ is within [0, len(X)), and __len__ is len(X) afterwards
C10_ConstructorIsSafe ==
    /\ dpc # "raised"
    /\ \A index \in passed : index >= 0 /\ index < Len(X)
    /\ dpc = "ready" => DatasetLen = Len(X)

(***************************************************************************)
(* main.py: configuration                                                  *)
(***************************************************************************)
EPOCHS == 50
EMB_TRAINABLE == FALSE

\* from_pretrained(..., freeze=True) in the classes of attention.py
freeze == TRUE

\* the names the script accepts, and one it does not
ValidNames == {"MR", "Semeval2017A"}
DatasetNames == ValidNames \cup {"SST"}

\* the list of line 48 as written, and two lists that hold another name
DatasetLists == { <<"MR", "Semeval2017A">>, <<"MR", "SST">>, <<"SST", "MR">> }

\* lines 50-55: what the if/elif/else does with DATASET
SelectionFallsBack(name) ==
    IF name = "Semeval2017A" THEN "load_Semeval2017A" ELSE "load_MR"
Selection(name) ==
    IF name = "Semeval2017A" THEN "load_Semeval2017A"
    ELSE IF name = "MR" THEN "load_MR"
    ELSE "raise"

\* range(1, EPOCHS + 1)
EpochRangeShort == 1..(EPOCHS - 1)
EpochRange == 1..EPOCHS

(***************************************************************************)
(* The model classes: their parameters and which of them require gradients *)
(***************************************************************************)
ModelClasses ==
    {"BaselineDNN", "SimpleSelfAttentionModel", "MultiHeadAttentionModel",
     "TransformerEncoderModel"}

\* the parameter tensors each class registers
BaselineParamNames == {"token_embedding_table", "hidden", "output"}
ParamNames(class) ==
    IF class = "BaselineDNN"
    THEN BaselineParamNames
    ELSE IF class = "TransformerEncoderModel"
    THEN {"token_embedding_table", "position_embedding_table", "blocks", "ln_f", "output"}
    ELSE {"token_embedding_table", "position_embedding_table", "sa", "ffwd",
          "ln1", "ln2", "output"}

\* p.requires_grad after construction
BaselineEmbeddingRequiresGrad(trainable_emb) == trainable_emb
RequiresGrad(class, name) ==
    IF name = "token_embedding_table"
    THEN IF class = "BaselineDNN"
         THEN BaselineEmbeddingRequiresGrad(EMB_TRAINABLE)
         ELSE ~freeze
    ELSE TRUE

\* the constructor: the embedding table holds the pretrained matrix, the
\* other parameters their random initial values
NewModel(class, emb) ==
    [class   |-> class,
     weights |-> [name \in ParamNames(class) |->
                     IF name = "token_embedding_table" THEN emb ELSE "initial"]]

\* parameters = filter(lambda p: p.requires_grad, model.parameters())
ParametersUnfiltered(m) == DOMAIN m.weights
Parameters(m) == {name \in DOMAIN m.weights : RequiresGrad(m.class, name)}

\* train_dataset: optimizer.step() may write every parameter the optimizer
\* holds and no other
StepResults(m, opt) ==
    {[name \in DOMAIN m.weights |->
         IF name \in written THEN "updated" ELSE m.weights[name]] :
     written \in SUBSET opt}

\* eval_dataset: evaluation writes no parameter
EvalResult(m) == m

(***************************************************************************)
(* main.py: the script, one action per step                                *)
(***************************************************************************)
DataIdle ==
    /\ X = <<>>
    /\ y = <<>>
    /\ word2idx = <<>>
    /\ data = <<>>
    /\ labels = <<>>
    /\ dpc = "off"
    /\ i = 0
    /\ passed = {}
    /\ ret = NoRet
    /\ last = NoCall
    /\ returned = <<>>

InitMain ==
    /\ datasets \in DatasetLists
    /\ di = 0
    /\ mpc = "start"
    /\ error = "none"
    /\ embeddings = "unloaded"
    /\ emb_loads = 0
    /\ model = NoModel
    /\ optimizer = {}
    /\ epoch = 0
    /\ train_loss = NoLoss
    /\ test_loss = NoLoss
    /\ train_losses = <<>>
    /\ test_losses = <<>>
    /\ phases = <<>>
    /\ loaded = {}
    /\ built = {}
    /\ trained = {}
    /\ DataIdle
    /\ FwdIdle

\* line 46: word2idx, idx2word, embeddings = load_word_vectors(...)
LoadWordVectors ==
    /\ mpc = "start"
    /\ embeddings' = "pretrained"
    /\ emb_loads' = emb_loads + 1
    /\ di' = 1
    /\ mpc' = "select"
    /\ UNCHANGED <<datasets, error, model, optimizer, epoch, train_loss, test_loss,
                   train_losses, test_losses, phases, loaded, built, trained, dataVars, fwdVars>>

\* lines 48-53: the next DATASET is one the script knows; its data is loaded
LoadRawData ==
    /\ mpc = "select"
    /\ Selection(datasets[di]) # "raise"
    /\ loaded' = loaded \cup {di}
    /\ mpc' = "loaded"
    /\ UNCHANGED <<datasets, di, error, embeddings, emb_loads, model, optimizer, epoch,
                   train_loss, test_loss, train_losses, test_losses, phases,
                   built, trained, dataVars, fwdVars>>

\* lines 54-55: raise ValueError("Invalid dataset"), which ends the script
RaiseInvalidDataset ==
    /\ mpc = "select"
    /\ Selection(datasets[di]) = "raise"
    /\ error' = "ValueError: Invalid dataset"
    /\ mpc' = "failed"
    /\ UNCHANGED <<datasets, di, embeddings, emb_loads, model, optimizer, epoch,
                   train_loss, test_loss, train_losses, test_losses, phases,
                   loaded, built, trained, dataVars, fwdVars>>

\* lines 57-109: labels, datasets (SpecData follows one SentenceDataset),
\* loaders, criterion, model, optimizer, the two empty loss lists and the
\* start of the epoch loop.  Line 87 names BaselineDNN; the classes of
\* attention.py take its place with the same arguments.  MR and Semeval2017A
\* hold thousands of sentences, so the loops of line 66 and of
\* SentenceDataset.__init__ stay in range here
BuildModel ==
    /\ mpc = "loaded"
    /\ \E class \in ModelClasses :
          /\ model' = NewModel(class, embeddings)
          /\ optimizer' = Parameters(NewModel(class, embeddings))
    /\ built' = built \cup {di}
    /\ train_losses' = <<>>
    /\ test_losses' = <<>>
    /\ epoch' = 1
    /\ phases' = <<>>
    /\ mpc' = IF 1 \in EpochRange THEN "train" ELSE "plot"
    /\ UNCHANGED <<datasets, di, error, embeddings, emb_loads, train_loss, test_loss,
                   loaded, trained, dataVars, fwdVars>>

\* line 111: train_dataset(epoch, train_loader, model, criterion, optimizer)
TrainDataset ==
    /\ mpc = "train"
    /\ \E w \in StepResults(model, optimizer) : model' = [model EXCEPT !.weights = w]
    /\ trained' = trained \cup {di}
    /\ phases' = <<"train">>
    /\ mpc' = "eval_train"
    /\ UNCHANGED <<datasets, di, error, embeddings, emb_loads, optimizer, epoch,
                   train_loss, test_loss, train_losses, test_losses, loaded, built,
                   dataVars, fwdVars>>

\* lines 114-116: train_loss, ... = eval_dataset(train_loader, model, criterion)
EvalTrain ==
    /\ mpc = "eval_train"
    /\ train_loss' = [split |-> "train", epoch |-> epoch]
    /\ model' = EvalResult(model)
    /\ phases' = Append(phases, "eval_train")
    /\ mpc' = "eval_test"
    /\ UNCHANGED <<datasets, di, error, embeddings, emb_loads, optimizer, epoch,
                   test_loss, train_losses, test_losses, loaded, built, trained,
                   dataVars, fwdVars>>

\* lines 118-120: test_loss, ... = eval_dataset(test_loader, model, criterion)
EvalTest ==
    /\ mpc = "eval_test"
    /\ test_loss' = [split |-> "test", epoch |-> epoch]
    /\ model' = EvalResult(model)
    /\ phases' = Append(phases, "eval_test")
    /\ mpc' = "record"
    /\ UNCHANGED <<datasets, di, error, embeddings, emb_loads, optimizer, epoch,
                   train_loss, train_losses, test_losses, loaded, built, trained,
                   dataVars, fwdVars>>

\* lines 121-125 and the loop header of line 109: append both losses, print,
\* go to the next epoch or leave the loop
RecordEpoch ==
    /\ mpc = "record"
    /\ train_losses' = Append(train_losses, train_loss)
    /\ test_losses' = Append(test_losses, test_loss)
    /\ epoch' = IF epoch + 1 \in EpochRange THEN epoch + 1 ELSE epoch
    /\ mpc' = IF epoch + 1 \in EpochRange THEN "train" ELSE "plot"
    /\ UNCHANGED <<datasets, di, error, embeddings, emb_loads, model, optimizer,
                   train_loss, test_loss, phases, loaded, built, trained, dataVars, fwdVars>>

\* lines 127-140 and the loop header of line 48: final report, plot, then the
\* next DATASET or the end of the script
PlotLosses ==
    /\ mpc = "plot"
    /\ di' = di + 1
    /\ mpc' = IF di + 1 <= Len(datasets) THEN "select" ELSE "done"
    /\ UNCHANGED <<datasets, error, embeddings, emb_loads, model, optimizer, epoch,
                   train_loss, test_loss, train_losses, test_losses, phases,
                   loaded, built, trained, dataVars, fwdVars>>

NextMain ==
    \/ LoadWordVectors
    \/ LoadRawData
    \/ RaiseInvalidDataset
    \/ BuildModel
    \/ TrainDataset
    \/ EvalTrain
    \/ EvalTest
    \/ RecordEpoch
    \/ PlotLosses

\* the script is one sequential thread: a step that can be taken is taken
SpecMain == InitMain /\ [][NextMain]_vars /\ WF_vars(NextMain)

(***************************************************************************)
(* Properties of the script                                                *)
(***************************************************************************)
InEpochLoop == mpc \in {"train", "eval_train", "eval_test", "record"}

\* both loss lists start empty; inside epoch k they hold the k-1 entries of
\* the epochs before, one per epoch and in order; the losses are recorded
\* after train_dataset, eval on the train split and eval on the test split,
\* in that order; the loop is left only after epoch EPOCHS, with EPOCHS
\* entries in each list
C6_EpochLoop ==
    /\ InEpochLoop =>
          /\ epoch \in 1..EPOCHS
          /\ Len(train_losses) = epoch - 1
          /\ Len(test_losses) = epoch - 1
    /\ mpc = "record" => phases = <<"train", "eval_train", "eval_test">>
    /\ mpc = "plot" =>
          /\ epoch = EPOCHS
          /\ Len(train_losses) = EPOCHS
          /\ Len(test_losses) = EPOCHS
    /\ \A k \in 1..Len(train_losses) : train_losses[k] = [split |-> "train", epoch |-> k]
    /\ \A k \in 1..Len(test_losses) : test_losses[k] = [split |-> "test", epoch |-> k]

\* every epoch loop that is entered is left
C6_Terminates == InEpochLoop ~> (mpc = "plot")

\* C6: for each dataset the training loop runs exactly EPOCHS epochs and then
\* terminates; in every epoch training comes before the evaluation of the
\* train split and then of the test split; after epoch k both loss lists hold
\* exactly k entries, EPOCHS at loop exit, starting empty for each dataset
C6_RunsEpochsThenStops == []C6_EpochLoop /\ C6_Terminates

\* the epoch loop of the second dataset of the list as written is over
C6_Witness ==
    /\ datasets = <<"MR", "Semeval2017A">>
    /\ di = 2
    /\ mpc = "plot"
    /\ Len(train_losses) = EPOCHS
    /\ Len(test_losses) = EPOCHS

\* C7: for a name that is neither "MR" nor "Semeval2017A" no data is loaded,
\* no model is built and no training step runs, and once the script has
\* looked at it the script has failed with ValueError("Invalid dataset")
C7_InvalidDatasetFails ==
    \A p \in 1..Len(datasets) :
        datasets[p] \notin ValidNames =>
            /\ p \notin loaded \cup built \cup trained
            /\ di <= p
            /\ (di = p /\ mpc # "select") =>
                  mpc = "failed" /\ error = "ValueError: Invalid dataset"

\* the script has failed on the second name, after training on the first
C7_Witness ==
    /\ mpc = "failed"
    /\ error = "ValueError: Invalid dataset"
    /\ di = 2
    /\ datasets[di] \notin ValidNames
    /\ trained = {1}

\* C8: the embedding matrix is loaded once and keeps its value; the model's
\* token embedding table is not among the optimizer's parameters and holds
\* the pretrained matrix in every state, whatever the training steps did
C8_EmbeddingStaysPretrained ==
    /\ emb_loads <= 1
    /\ mpc # "start" => emb_loads = 1 /\ embeddings = "pretrained"
    /\ model # NoModel =>
          /\ "token_embedding_table" \notin optimizer
          /\ model.weights["token_embedding_table"] = "pretrained"
          /\ model.weights["token_embedding_table"] = embeddings

\* training steps of the second dataset have updated every other parameter
\* of an attention model and left the embedding table as loaded
C8_Witness ==
    /\ di = 2
    /\ mpc = "plot"
    /\ model.class = "SimpleSelfAttentionModel"
    /\ model.weights["token_embedding_table"] = "pretrained"
    /\ \A name \in DOMAIN model.weights \ {"token_embedding_table"} :
          model.weights[name] = "updated"

(***************************************************************************)
(* attention.py: the forward pass of the three classifiers.                *)
(* A tensor is named by its position on the tape; 0 names the argument x.  *)
(***************************************************************************)
MaxHeads == 3       \* n_head ranges over 1 .. MaxHeads
MaxLayers == 2      \* n_layer ranges over 0 .. MaxLayers
MaxOut == 2         \* output_size ranges over 1 .. MaxOut

AttentionClasses ==
    {"SimpleSelfAttentionModel", "MultiHeadAttentionModel", "TransformerEncoderModel"}

Entry(op, args) == [op |-> op, args |-> args]

\* Head.forward: one head of self-attention applied to tensor `in`
HeadForward(tp, in) == Append(tp, Entry("Head", <<in>>))

\* MultiHeadAttention.forward: every head on the same input, concatenated,
\* projected, dropout
MultiHeadAttentionForward(tp, in, nh) ==
    LET t1 == tp \o [h \in 1..nh |-> Entry("Head", <<in>>)]
        t2 == Append(t1, Entry("cat", [h \in 1..nh |-> Len(tp) + h]))
        t3 == Append(t2, Entry("proj", <<Len(t2)>>))
    IN  Append(t3, Entry("dropout", <<Len(t3)>>))

\* self.sa: a Head in SimpleSelfAttentionModel, MultiHeadAttention elsewhere
SaForward(class, tp, in, nh) ==
    IF class = "SimpleSelfAttentionModel"
    THEN HeadForward(tp, in)
    ELSE MultiHeadAttentionForward(tp, in, nh)

\* FeedFoward.forward: Linear, ReLU, Linear, Dropout
FeedFowardForward(tp, in) ==
    LET t1 == Append(tp, Entry("linear1", <<in>>))
        t2 == Append(t1, Entry("relu", <<Len(t1)>>))
        t3 == Append(t2, Entry("linear2", <<Len(t2)>>))
    IN  Append(t3, Entry("dropout", <<Len(t3)>>))

\* a LayerNorm module applied to tensor `in`
LayerNorm(tp, name, in) == Append(tp, Entry(name, <<in>>))

\* x + out
ResidualDropsInput(tp, x, out) == Append(tp, Entry("add", <<out, out>>))
Residual(tp, x, out) == Append(tp, Entry("add", <<x, out>>))

\* x = x + self.sa(self.ln1(x))
AttentionSublayer(class, tp, x, nh) ==
    LET t1 == LayerNorm(tp, "ln1", x)
        t2 == SaForward(class, t1, Len(t1), nh)
    IN  Residual(t2, x, Len(t2))

\* x = x + self.ffwd(self.ln2(x))
FeedForwardSublayer(tp, x) ==
    LET t1 == LayerNorm(tp, "ln2", x)
        t2 == FeedFowardForward(t1, Len(t1))
    IN  Residual(t2, x, Len(t2))

InitForward ==
    /\ fclass \in AttentionClasses
    /\ n_head \in IF fclass = "SimpleSelfAttentionModel" THEN {1} ELSE 1..MaxHeads
    /\ n_layer \in IF fclass = "TransformerEncoderModel" THEN 0..MaxLayers ELSE {0}
    /\ output_size \in 1..MaxOut
    /\ fpc = "tok_emb"
    /\ layer = 0
    /\ tape = <<>>
    /\ xid = 0
    /\ DataIdle
    /\ MainIdle

\* tok_emb = self.token_embedding_table(x)
FwdTokenEmbedding ==
    /\ fpc = "tok_emb"
    /\ tape' = Append(tape, Entry("token_embedding_table", <<xid>>))
    /\ fpc' = "pos_emb"
    /\ UNCHANGED <<fclass, n_head, n_layer, output_size, layer, xid, dataVars, mainVars>>

\* pos_emb = self.position_embedding_table(torch.arange(T))
FwdPositionEmbedding ==
    /\ fpc = "pos_emb"
    /\ tape' = Append(tape, Entry("position_embedding_table", <<>>))
    /\ fpc' = "add_pos"
    /\ UNCHANGED <<fclass, n_head, n_layer, output_size, layer, xid, dataVars, mainVars>>

\* x = tok_emb + pos_emb
FwdAddPosition ==
    /\ fpc = "add_pos"
    /\ tape' = Append(tape, Entry("add", <<Len(tape) - 1, Len(tape)>>))
    /\ xid' = Len(tape')
    /\ fpc' = IF fclass = "TransformerEncoderModel"
              THEN IF n_layer > 0 THEN "block_sa" ELSE "ln_f"
              ELSE "sa"
    /\ UNCHANGED <<fclass, n_head, n_layer, output_size, layer, dataVars, mainVars>>

\* SimpleSelfAttentionModel.forward line 81, MultiHeadAttentionModel.forward line 146
FwdAttention ==
    /\ fpc = "sa"
    /\ tape' = AttentionSublayer(fclass, tape, xid, n_head)
    /\ xid' = Len(tape')
    /\ fpc' = "ffwd"
    /\ UNCHANGED <<fclass, n_head, n_layer, output_size, layer, dataVars, mainVars>>

\* SimpleSelfAttentionModel.forward line 82, MultiHeadAttentionModel.forward line 147
FwdFeedForward ==
    /\ fpc = "ffwd"
    /\ tape' = FeedForwardSublayer(tape, xid)
    /\ xid' = Len(tape')
    /\ fpc' = "mean"
    /\ UNCHANGED <<fclass, n_head, n_layer, output_size, layer, dataVars, mainVars>>

\* Block.forward line 171, inside x = self.blocks(x)
FwdBlockAttention ==
    /\ fpc = "block_sa"
    /\ tape' = AttentionSublayer(fclass, tape, xid, n_head)
    /\ xid' = Len(tape')
    /\ fpc' = "block_ffwd"
    /\ UNCHANGED <<fclass, n_head, n_layer, output_size, layer, dataVars, mainVars>>

\* Block.forward lines 172-173, then the next Block of the Sequential or its end
FwdBlockFeedForward ==
    /\ fpc = "block_ffwd"
    /\ tape' = FeedForwardSublayer(tape, xid)
    /\ xid' = Len(tape')
    /\ layer' = layer + 1
    /\ fpc' = IF layer + 1 < n_layer THEN "block_sa" ELSE "ln_f"
    /\ UNCHANGED <<fclass, n_head, n_layer, output_size, dataVars, mainVars>>

\* TransformerEncoderModel.forward line 209: x = self.ln_f(x)
FwdFinalNorm ==
    /\ fpc = "ln_f"
    /\ tape' = LayerNorm(tape, "ln_f", xid)
    /\ xid' = Len(tape')
    /\ fpc' = "mean"
    /\ UNCHANGED <<fclass, n_head, n_layer, output_size, layer, dataVars, mainVars>>

\* x = x.mean(dim=1)
FwdMeanPool ==
    /\ fpc = "mean"
    /\ tape' = Append(tape, Entry("mean", <<xid>>))
    /\ xid' = Len(tape')
    /\ fpc' = "output"
    /\ UNCHANGED <<fclass, n_head, n_layer, output_size, layer, dataVars, mainVars>>

\* logits = self.output(x)
FwdOutput ==
    /\ fpc = "output"
    /\ tape' = Append(tape, Entry("output", <<xid>>))
    /\ xid' = Len(tape')
    /\ fpc' = IF output_size = 1 THEN "squeeze" ELSE "return"
    /\ UNCHANGED <<fclass, n_head, n_layer, output_size, layer, dataVars, mainVars>>

\* if self.output_size == 1: logits = logits.squeeze(1)
FwdSqueeze ==
    /\ fpc = "squeeze"
    /\ tape' = Append(tape, Entry("squeeze", <<xid>>))
    /\ xid' = Len(tape')
    /\ fpc' = "return"
    /\ UNCHANGED <<fclass, n_head, n_layer, output_size, layer, dataVars, mainVars>>

\* return logits
FwdReturn ==
    /\ fpc = "return"
    /\ fpc' = "returned"
    /\ UNCHANGED <<fclass, n_head, n_layer, output_size, layer, tape, xid,
                   dataVars, mainVars>>

NextForward ==
    \/ FwdTokenEmbedding
    \/ FwdPositionEmbedding
    \/ FwdAddPosition
    \/ FwdAttention
    \/ FwdFeedForward
    \/ FwdBlockAttention
    \/ FwdBlockFeedForward
    \/ FwdFinalNorm
    \/ FwdMeanPool
    \/ FwdOutput
    \/ FwdSqueeze
    \/ FwdReturn

SpecForward == InitForward /\ [][NextForward]_vars

(***************************************************************************)
(* Properties of the forward passes                                        *)
(***************************************************************************)
Ops == [k \in 1..Len(tape) |-> tape[k].op]

RECURSIVE RepeatSeq(_, _)
RepeatSeq(q, n) == IF n <= 0 THEN <<>> ELSE q \o RepeatSeq(q, n - 1)

EmbedOps == <<"token_embedding_table", "position_embedding_table", "add">>

AttentionOps ==
    IF fclass = "SimpleSelfAttentionModel"
    THEN <<"Head">>
    ELSE [h \in 1..n_head |-> "Head"] \o <<"cat", "proj", "dropout">>

\* x = x + attention(norm(x)), then x = x + feedforward(norm(x))
BlockOps ==
    <<"ln1">> \o AttentionOps \o <<"add">> \o
    <<"ln2", "linear1", "relu", "linear2", "dropout", "add">>

HeadOps == <<"mean", "output">> \o (IF output_size = 1 THEN <<"squeeze">> ELSE <<>>)

\* C9 as stated: every class runs embed, add positions, N blocks (for the
\* simplest class N = 0 and one raw attention head), final normalization,
\* mean pooling, output projection
C9_SharedSkeleton ==
    fpc = "returned" =>
        \/ \E n \in 0..Len(tape) :
              Ops = EmbedOps \o RepeatSeq(BlockOps, n) \o <<"ln_f">> \o HeadOps
        \/ /\ fclass = "SimpleSelfAttentionModel"
           /\ Ops = EmbedOps \o <<"Head", "ln_f">> \o HeadOps

\* the last "add" before position k, the tensor `x` names there
RECURSIVE LastAddBefore(_)
LastAddBefore(k) ==
    IF k <= 1 THEN 0
    ELSE IF tape[k - 1].op = "add" THEN k - 1 ELSE LastAddBefore(k - 1)

\* C9 amended: every class embeds the tokens and adds the positional
\* embedding, runs pre-norm residual blocks (one, written inline, in
\* SimpleSelfAttentionModel and MultiHeadAttentionModel, n_layer in
\* TransformerEncoderModel), applies a final normalization only in
\* TransformerEncoderModel, then mean-pools and projects
C9_ActualSkeleton ==
    fpc = "returned" =>
        /\ Ops = EmbedOps
                 \o RepeatSeq(BlockOps, IF fclass = "TransformerEncoderModel"
                                        THEN n_layer ELSE 1)
                 \o (IF fclass = "TransformerEncoderModel" THEN <<"ln_f">> ELSE <<>>)
                 \o HeadOps
        /\ tape[1].args = <<0>> /\ tape[3].args = <<1, 2>>
        /\ \A k \in 4..Len(tape) :
              IF tape[k].op = "add"
              THEN \* a residual: the block input plus the sub-layer output
                   tape[k].args = <<LastAddBefore(k), k - 1>>
              ELSE IF tape[k].op = "Head"
              THEN \* every head reads the normalized input
                   tape[tape[k].args[1]].op = "ln1"
              ELSE IF tape[k].op = "cat"
              THEN tape[k].args = [h \in 1..n_head |-> k - n_head - 1 + h]
              ELSE tape[k].args = <<k - 1>>
        /\ \A k \in 4..Len(tape) :
              tape[k].op \in {"ln1", "ln2"} => tape[k].args = <<LastAddBefore(k)>>

\* a SimpleSelfAttentionModel call has returned: two residual sub-layers and
\* no final normalization
C9_Witness ==
    /\ fpc = "returned"
    /\ fclass = "SimpleSelfAttentionModel"
    /\ Cardinality({k \in 1..Len(tape) : tape[k].op = "add"}) = 3
    /\ \A k \in 1..Len(tape) : tape[k].op # "ln_f"

====
